---- MODULE Spec2Model ----
(***************************************************************************)
(* A model of xonsh's subprocess-mode execution core:                      *)
(*   - Aliases.get / Aliases.eval_alias        (xonsh/built_ins.py)        *)
(*   - _redirect_io and get_proc's token loop  (xonsh/proc.py)             *)
(*   - run_subproc, get_proc, ProcProxy, AndProc/OrProc, the job registry  *)
(*     (xonsh/built_ins.py, xonsh/proc.py, xonsh/jobs_not_implemented.py)  *)
(* The specifications SpecAlias, SpecRedir, SpecParse and Spec (the        *)
(* pipeline executor) share the module; each leaves the others' variables  *)
(* at their idle values.                                                   *)
(***************************************************************************)
EXTENDS Integers, Sequences, FiniteSets, TLC

VARIABLES
    \* ---- alias table and one lookup in progress
    raw,        \* Aliases._raw: key -> token list or callable
    akey,       \* the key handed to Aliases.get
    apc,        \* "idle" | "eval" | "done"
    aval,       \* eval_alias's `value`
    aseen,      \* eval_alias's `seen_tokens`
    aacc,       \* eval_alias's `acc_args`
    acalls,     \* number of eval_alias invocations of this lookup
    aresult,    \* what Aliases.get returned
    afirst,     \* the command whose head get_proc looked up again
    astage,     \* the proxy get_proc built from a callable alias
    \* ---- a stream map under a sequence of _redirect_io calls
    rstreams,   \* `streams`: stream name -> binding
    rprev,      \* `streams` as it was before the last call
    rtok,       \* the last call's `r`
    rloc,       \* the last call's `loc`
    rerr,       \* the error the last call raised ("" when it returned)
    rcount,     \* number of calls made
    rassigned,  \* stream name -> number of times a call assigned it
    \* ---- get_proc's redirection loop on a token list and on the list with
    \*      its two redirections swapped
    prun,       \* side ("A" | "B") -> [cmd, streams, err, done]
    \* ---- one run_subproc call, the stages it starts and the job registry
    nstages,    \* number of stages of `cmds` (connectors and `&` aside)
    background, \* whether `cmds` ends with "&"
    captured,   \* run_subproc's `captured`
    pc,         \* where run_subproc is
    ix,         \* index of the stage the construction loop is at
    cix,        \* index of the stage the closing loop is at
    procs,      \* `procs`: ids of the stage objects built so far
    objs,       \* id -> stage object (Popen, ProcProxy, AndProc, OrProc)
    pipes,      \* id -> the OS pipe created for that object's stdout
    activeJob,  \* jobs._active_job
    output,     \* run_subproc's `output`
    result,     \* what run_subproc returned
    err,        \* the exception run_subproc raised ("" if none)
    waited,     \* ids of the objects run_subproc has waited on
    readFrom,   \* ids of the objects whose stdout run_subproc has read
    written,    \* every byte written to a pipe or a file, in order, as the
                \* id of the object that wrote it
    \* ---- the job registry under a sequence of calls from the shell
    jactive,    \* jobs._active_job
    jkids,      \* the OS children of the jobs registered so far:
                \* "running" | "exited" | "reaped"
    jpc,        \* "idle", or "waiting" inside wait_for_active_job
    jlast,      \* the registry call that returned last
    \* ---- one call of get_script_subproc_command
    sfile,      \* the script: its path, mode bits and first line
    sargs,      \* the arguments after the command name
    swin,       \* ON_WINDOWS
    sres,       \* what the call returned or raised
    \* ---- one call of get_proc on a stage of kind `cmd`
    wstage,     \* the stage's tokens, whether prev_proc is set, uninew and
                \* captured
    wrun,       \* the call so far: the tokens left, the stream map, the
                \* error raised, and the stdin and stdout chosen
    \* ---- simple proc-proxies running at the same time
    ambient,    \* sys.stdout and sys.stderr: 0 the streams in place before
                \* the pipeline, w the stream of worker w
    rthreads    \* per worker: where it is in wrapped_simple_command, and
                \* the streams its two redirections found on entry

resolverVars == <<afirst, astage>>
aliasVars == <<raw, akey, apc, aval, aseen, aacc, acalls, aresult,
               resolverVars>>
redirVars == <<rstreams, rprev, rtok, rloc, rerr, rcount, rassigned>>
parseVars == <<prun>>
pipeVars == <<nstages, background, captured, pc, ix, cix, procs, objs, pipes,
              activeJob, output, result, err, waited, readFrom, written>>
jobVars == <<jactive, jkids, jpc, jlast>>
shebangVars == <<sfile, sargs, swin, sres>>
wireVars == <<wstage, wrun>>
ambientVars == <<ambient, rthreads>>
vars == <<aliasVars, redirVars, parseVars, pipeVars, jobVars, shebangVars,
          wireVars, ambientVars>>

(***************************************************************************)
(* Alias table                                                             *)
(***************************************************************************)

\* Longest token list stored as an alias value.
MaxAliasLen == 2
\* Cap on the invocation counter (never reached by the code as written).
CallCap == 6

AliasNames == {"l", "ls", "g"}
ArgTokens == {"--color=auto", "-CF"}
Tokens == AliasNames \cup ArgTokens

\* A callable alias value; `arity` is what inspect.signature reports,
\* `prefix` the arguments bound by partial application, `partial` whether it
\* is the lambda built by eval_alias.
Callable(n, ar) == [isCallable |-> TRUE, name |-> n, arity |-> ar,
                    partial |-> FALSE, prefix |-> <<>>, toks |-> <<>>]
TokenList(s) == [isCallable |-> FALSE, name |-> "", arity |-> 0,
                  partial |-> FALSE, prefix |-> <<>>, toks |-> s]
NoneValue == [isCallable |-> FALSE, name |-> "None", arity |-> 0,
              partial |-> FALSE, prefix |-> <<>>, toks |-> <<>>]

SeqsUpTo(S, n) == UNION {[1..k -> S] : k \in 1..n}

AliasEntries == {Callable("f2", 2), Callable("f4", 4)}
                  \cup {TokenList(s) : s \in SeqsUpTo(Tokens, MaxAliasLen)}

AliasTables == UNION {[K -> AliasEntries] : K \in SUBSET AliasNames}

\* eval_alias when `value` is callable: the partial application or the value.
EvalCallable(value, acc_args) ==
    IF acc_args # <<>>
    THEN [value EXCEPT !.partial = TRUE, !.prefix = acc_args, !.arity = 2]
    ELSE value

\* eval_alias's test for stopping at the left-most token.
StopsMutNoSeen(token, seen_tokens, table) == token \notin DOMAIN table
Stops(token, seen_tokens, table) ==
    token \in seen_tokens \/ token \notin DOMAIN table

\* Command-line arguments of the command whose head is an alias.
CmdArgs == {<<>>, <<"x">>}
\* No stage built yet.
NoStage == [cls |-> "", args |-> <<>>, ran |-> FALSE, calls |-> 0,
            callArgs |-> <<>>, rc |-> "None"]
\* Parameters of the callable at the bottom of an alias value.
UnderlyingArity(c) == IF c.name = "f4" THEN 4 ELSE 2
\* get_proc: the proxy class chosen from the number of parameters of the
\* callable the lookup returned.
ProxyClass(c) == IF c.arity = 2 THEN "SimpleProcProxy" ELSE "ProcProxy"
\* get_proc: `cmd = alias + cmd[1:]` when the alias is a token list, cmd
\* itself when there is no alias.
ExpandCmd(alias, cmd) ==
    IF alias = NoneValue THEN cmd ELSE alias.toks \o Tail(cmd)
\* The call the worker of a proxy makes: how many times the callable at the
\* bottom of `c` is entered and with what arguments.  The lambda eval_alias
\* builds passes (args, stdin=...) on to a callable of any shape.
WorkerCall(c, cls, args) ==
    IF cls = "ProcProxy" THEN [calls |-> 1, callArgs |-> args]
    ELSE IF ~c.partial THEN [calls |-> 1, callArgs |-> args]
    ELSE IF UnderlyingArity(c) = 2
         THEN [calls |-> 1, callArgs |-> c.prefix \o args]
    ELSE [calls |-> 0, callArgs |-> <<>>]

(***************************************************************************)
(* Redirection parser                                                      *)
(***************************************************************************)

\* Number of _redirect_io calls applied to one stream map.
MaxRedirCalls == 3

\* Tokens of the universe that _REDIR_REGEX matches, with the groups
\* (orig, mode, dest) the match yields.
RedirTokens == {">", ">>", "<", "2>", "a>", "2>1", "2>&1", ">&2", "<&0",
                ">&", "3>", "2<", "1>2"}
WordTokens == {"cmd", "arg"}
Paths == {"f", "g", "bad"}
NoLoc == "<None>"

_REDIR_REGEX(tok) ==
    CASE tok = ">"    -> <<"", ">", "">>
      [] tok = ">>"   -> <<"", ">>", "">>
      [] tok = "<"    -> <<"", "<", "">>
      [] tok = "2>"   -> <<"2", ">", "">>
      [] tok = "a>"   -> <<"a", ">", "">>
      [] tok = "2>1"  -> <<"2", ">", "1">>
      [] tok = "2>&1" -> <<"2", ">", "&1">>
      [] tok = ">&2"  -> <<"", ">", "&2">>
      [] tok = "<&0"  -> <<"", "<", "&0">>
      [] tok = ">&"   -> <<"", ">", "&">>
      [] tok = "3>"   -> <<"3", ">", "">>
      [] tok = "2<"   -> <<"2", "<", "">>
      [] tok = "1>2"  -> <<"1", ">", "2">>

_is_redirect(x) == x \in RedirTokens

_MODES(m) == CASE m = ">>" -> "a" [] m = ">" -> "w" [] m = "<" -> "r"
_WRITE_MODES == {"w", "a"}
_REDIR_ALL == {"&", "a", "all"}
_REDIR_ERR == {"2", "e", "err"}
_REDIR_OUT == {"", "1", "o", "out"}
\* r.replace('&', '') in _E2O_MAP, for the tokens of the universe
_E2O(tok) == tok \in {"2>1", "2>&1"}

\* dest.startswith('&') and int(dest[1:]): the fd, or -1 when int() raises
DestIsAmp(dest) == dest \in {"&", "&0", "&1", "&2"}
DestFd(dest) ==
    CASE dest = "&0" -> 0 [] dest = "&1" -> 1 [] dest = "&2" -> 2
      [] OTHER -> -1

StreamNames == {"stdin", "stdout", "stderr"}

\* Stream bindings.  STDOUT is subprocess.STDOUT.
STDOUT == [kind |-> "merge", path |-> "", mode |-> "", fd |-> -2]
FileBinding(fname, mode) ==
    [kind |-> "file", path |-> fname, mode |-> mode, fd |-> -1]
FdBinding(n) == [kind |-> "fd", path |-> "", mode |-> "", fd |-> n]

\* A redirection target after the fd-duplication step: a file name or an fd.
Target(isFd, fname, n) == [isFd |-> isFd, fname |-> fname, n |-> n]

\* Files open() can read, and names it cannot open for writing.
ReadableFiles == {"f", "g"}
UnwritableFiles == {"bad"}

\* _open(fname, mode): an int is returned as is; open() may fail.
OpenFails(t, mode) ==
    /\ ~t.isFd
    /\ \/ t.fname = NoLoc
       \/ mode = "r" /\ t.fname \notin ReadableFiles
       \/ mode \in _WRITE_MODES /\ t.fname \in UnwritableFiles
_open(t, mode) ==
    IF t.isFd THEN FdBinding(t.n) ELSE FileBinding(t.fname, mode)

Bind(streams, targets, b) ==
    [s \in DOMAIN streams \cup targets |->
        IF s \in targets THEN b ELSE streams[s]]

\* What a call did: the map after it, the error it raised ("" when it
\* returned), the files it opened and the streams it assigned.
Raised(streams, e) ==
    [streams |-> streams, err |-> e, opened |-> <<>>, assigned |-> {}]
Returned(streams, targets, b) ==
    [streams |-> Bind(streams, targets, b), err |-> "",
     opened |-> IF b.kind = "file" THEN <<b>> ELSE <<>>,
     assigned |-> targets]

ErrStdin == "Multiple inputs for stdin"
ErrStdout == "Multiple redirects for stdout"
ErrStderr == "Multiple redirects for stderr"
ErrUnrec == "Unrecognized redirection command"
ErrNoFile == "no such file or directory"
ErrValue == "ValueError"

\* The write branch's checks, in the code's order, for each class of `orig`:
\* the error raised, or "" with the streams to bind.
WriteTargetsMutNoCheck(streams, orig, dest) ==
    IF orig \in _REDIR_ALL THEN
        IF Len(dest) > 0 THEN [err |-> ErrUnrec, targets |-> {}]
        ELSE [err |-> "", targets |-> {"stdout", "stderr"}]
    ELSE IF orig \in _REDIR_ERR THEN
        IF Len(dest) > 0 THEN [err |-> ErrUnrec, targets |-> {}]
        ELSE [err |-> "", targets |-> {"stderr"}]
    ELSE IF orig \in _REDIR_OUT THEN
        IF Len(dest) > 0 THEN [err |-> ErrUnrec, targets |-> {}]
        ELSE [err |-> "", targets |-> {"stdout"}]
    ELSE [err |-> ErrUnrec, targets |-> {}]
WriteTargets(streams, orig, dest) ==
    IF orig \in _REDIR_ALL THEN
        IF "stderr" \in DOMAIN streams THEN [err |-> ErrStderr, targets |-> {}]
        ELSE IF "stdout" \in DOMAIN streams
             THEN [err |-> ErrStdout, targets |-> {}]
        ELSE IF Len(dest) > 0 THEN [err |-> ErrUnrec, targets |-> {}]
        ELSE [err |-> "", targets |-> {"stdout", "stderr"}]
    ELSE IF orig \in _REDIR_ERR THEN
        IF "stderr" \in DOMAIN streams THEN [err |-> ErrStderr, targets |-> {}]
        ELSE IF Len(dest) > 0 THEN [err |-> ErrUnrec, targets |-> {}]
        ELSE [err |-> "", targets |-> {"stderr"}]
    ELSE IF orig \in _REDIR_OUT THEN
        IF "stdout" \in DOMAIN streams THEN [err |-> ErrStdout, targets |-> {}]
        ELSE IF Len(dest) > 0 THEN [err |-> ErrUnrec, targets |-> {}]
        ELSE [err |-> "", targets |-> {"stdout"}]
    ELSE [err |-> ErrUnrec, targets |-> {}]

\* _redirect_io(streams, r, loc) from the mode lookup on, with the target
\* `t` and the residual `dest` of the fd-duplication step.
RedirectMode(streams, orig, op, dest, t) ==
    LET mode == _MODES(op) IN
    IF mode = "r" THEN
        IF Len(orig) > 0 \/ Len(dest) > 0 THEN Raised(streams, ErrUnrec)
        ELSE IF "stdin" \in DOMAIN streams THEN Raised(streams, ErrStdin)
        ELSE IF OpenFails(t, mode) THEN Raised(streams, ErrNoFile)
        ELSE Returned(streams, {"stdin"}, _open(t, mode))
    ELSE
        LET w == WriteTargets(streams, orig, dest) IN
        IF w.err # "" THEN Raised(streams, w.err)
        ELSE IF OpenFails(t, mode) THEN Raised(streams, ErrNoFile)
        ELSE Returned(streams, w.targets, _open(t, mode))

\* _redirect_io(streams, r, loc): the map after the call, the error raised
\* ("" when the call returns) and the files the call opened.
_redirect_io(streams, r, loc) ==
    IF _E2O(r) THEN
        IF "stderr" \in DOMAIN streams THEN Raised(streams, ErrStderr)
        ELSE Returned(streams, {"stderr"}, STDOUT)
    ELSE
        LET g == _REDIR_REGEX(r)
            orig == g[1]
            op == g[2]
            dest == g[3]
        IN  IF DestIsAmp(dest) THEN
                IF DestFd(dest) < 0 THEN Raised(streams, ErrValue)
                ELSE IF loc = NoLoc
                     THEN RedirectMode(streams, orig, op, "",
                                       Target(TRUE, "", DestFd(dest)))
                     ELSE Raised(streams, ErrUnrec)
            ELSE RedirectMode(streams, orig, op, dest, Target(FALSE, loc, -1))

\* One iteration of get_proc's `while True` loop over the stage's tokens.
\* `more` is FALSE when the loop breaks.
Last(s) == s[Len(s)]
Last2(s) == s[Len(s) - 1]
ParseIter(cmd, streams) ==
    IF Len(cmd) >= 3 /\ _is_redirect(Last2(cmd)) THEN
        LET r == _redirect_io(streams, Last2(cmd), Last(cmd)) IN
        [cmd |-> SubSeq(cmd, 1, Len(cmd) - 2), streams |-> r.streams,
         err |-> r.err, more |-> r.err = ""]
    ELSE IF Len(cmd) >= 2 /\ _is_redirect(Last(cmd)) THEN
        LET r == _redirect_io(streams, Last(cmd), NoLoc) IN
        [cmd |-> SubSeq(cmd, 1, Len(cmd) - 1), streams |-> r.streams,
         err |-> r.err, more |-> r.err = ""]
    ELSE IF Len(cmd) >= 3 /\ cmd[1] = "<" THEN
        LET r == _redirect_io(streams, cmd[1], cmd[2]) IN
        [cmd |-> SubSeq(cmd, 3, Len(cmd)), streams |-> r.streams,
         err |-> r.err, more |-> r.err = ""]
    ELSE [cmd |-> cmd, streams |-> streams, err |-> "", more |-> FALSE]

(***************************************************************************)
(* Stages, pipes and exit statuses                                         *)
(***************************************************************************)

\* Longest pipeline.
MaxStages == 2
\* Most bytes the stages of one pipeline write to their stdout, all together.
MaxOut == 2
\* Bytes an OS pipe holds before a write to it blocks.
PipeCap == 1
\* Most `and`/`or` stages in one pipeline.
MaxComposite == 1

\* returncode values: None, a bool, an int.
None == [type |-> "NoneType", b |-> FALSE, n |-> 0]
PyBool(b) == [type |-> "bool", b |-> b, n |-> 0]
PyInt(n) == [type |-> "int", b |-> FALSE, n |-> n]
\* A captured string: the bytes, each tagged with the object that wrote it.
Str(bytes) == [type |-> "str", b |-> FALSE, n |-> 0, s |-> bytes]
NoResult == [type |-> "unset", b |-> FALSE, n |-> 0, s |-> <<>>]
Value(v) == [type |-> v.type, b |-> v.b, n |-> v.n, s |-> <<>>]

\* get_return_code(p): p.returncode if it is a bool, else p.returncode == 0
get_return_codeMutIntOnly(returncode) ==
    returncode.type = "int" /\ returncode.n = 0
get_return_code(returncode) ==
    IF returncode.type = "bool" THEN returncode.b
    ELSE returncode.type = "int" /\ returncode.n = 0

\* The whole redirection loop of get_proc.
RECURSIVE ParseRest(_)
ParseRest(it) ==
    IF it.more THEN ParseRest(ParseIter(it.cmd, it.streams)) ELSE it
ParseAll(cmd, streams) == ParseRest(ParseIter(cmd, streams))

\* What a stage of kind `cmd` is: its tokens, and what its head token
\* resolves to: an executable ("os"), a four-argument callable ("proxy4"),
\* a two-argument callable ("simple"), a file that is not executable
\* ("denied") or nothing that can be spawned ("notfound").
StageToks == {<<"cmd">>, <<"cmd", ">", "f">>, <<"cmd", "<", "f">>,
              <<"cmd", ">", "f", ">", "g">>}
Resolutions == {"os", "proxy4", "simple", "denied", "notfound"}
CmdDescs == [typ : {"cmd"}, toks : StageToks, kind : Resolutions]
CompDescs == [typ : {"and", "or"}, toks : {<<>>}, kind : {"na"}]
StageDescs == CmdDescs \cup CompDescs
\* The sub-commands of an `and`/`or` stage that are followed: every kind of
\* stage but the four-argument callable.
SubCmdDescs == {d \in CmdDescs : d.kind # "proxy4"}

ErrDenied == "permission denied"
ErrNotFound == "command not found"
ErrClosed == "I/O operation on closed file"
ErrIndex == "IndexError"
ErrAttr == "AttributeError"

\* get_proc from the redirection loop to the construction of the stage: the
\* error raised, or where stdin comes from and where stdout goes.
Plan(e, i, o) == [err |-> e, stdin |-> i, stdout |-> o]
CmdPlanMutStdinWins(parsed, kind, hasPrev, uninew, capt) ==
    IF parsed.err # "" THEN Plan(parsed.err, "", "")
    ELSE IF "stdout" \in DOMAIN parsed.streams /\ ~uninew
         THEN Plan(ErrStdout, "", "")
    ELSE Plan("",
              IF "stdin" \in DOMAIN parsed.streams THEN "file"
              ELSE IF hasPrev THEN "prev" ELSE "inherit",
              IF "stdout" \in DOMAIN parsed.streams THEN "file"
              ELSE IF capt \/ ~uninew THEN "pipe" ELSE "inherit")
CmdPlanMutCapturedFirst(parsed, kind, hasPrev, uninew, capt) ==
    IF parsed.err # "" THEN Plan(parsed.err, "", "")
    ELSE IF "stdin" \in DOMAIN parsed.streams /\ hasPrev
         THEN Plan(ErrStdin, "", "")
    ELSE IF "stdout" \in DOMAIN parsed.streams /\ ~uninew
         THEN Plan(ErrStdout, "", "")
    ELSE Plan("",
              IF "stdin" \in DOMAIN parsed.streams THEN "file"
              ELSE IF hasPrev THEN "prev" ELSE "inherit",
              IF capt THEN "pipe"
              ELSE IF "stdout" \in DOMAIN parsed.streams THEN "file"
              ELSE IF ~uninew THEN "pipe" ELSE "inherit")
\* get_proc after its redirection loop, for a stage of kind `cmd`.
CmdPlan(parsed, kind, hasPrev, uninew, capt) ==
    IF parsed.err # "" THEN Plan(parsed.err, "", "")
    ELSE IF "stdin" \in DOMAIN parsed.streams /\ hasPrev
         THEN Plan(ErrStdin, "", "")
    ELSE IF "stdout" \in DOMAIN parsed.streams /\ ~uninew
         THEN Plan(ErrStdout, "", "")
    ELSE IF kind = "denied" THEN Plan(ErrDenied, "", "")
    ELSE IF kind = "notfound" THEN Plan(ErrNotFound, "", "")
    ELSE Plan("",
              IF "stdin" \in DOMAIN parsed.streams THEN "file"
              ELSE IF hasPrev THEN "prev" ELSE "inherit",
              IF "stdout" \in DOMAIN parsed.streams THEN "file"
              ELSE IF capt \/ ~uninew THEN "pipe" ELSE "inherit")
get_proc(d, hasPrev, uninew, capt) ==
    IF d.typ # "cmd" THEN
        Plan("", IF hasPrev THEN "prev" ELSE "inherit",
             IF capt \/ ~uninew THEN "pipe" ELSE "inherit")
    ELSE CmdPlan(ParseAll(d.toks, <<>>), d.kind, hasPrev, uninew, capt)

\* Ids: stage i of the pipeline is object i; the two sub-commands of a
\* composite stage i are the objects SubId(i, 1) and SubId(i, 2).
SubId(i, k) == MaxStages + 2 * (i - 1) + k
IsProxyKind(k) == k \in {"proxy4", "simple", "and", "or"}
IsComposite(k) == k \in {"and", "or"}

\* A stage object right after its constructor returned.  `inp` is the object
\* whose stdout pipe is this one's stdin (0: none), `rd` how far the worker
\* is with its stdin, `tpc` where a composite's run() is, `sub` the objects
\* its run() has built, `prev` the composite's prev_proc.
NewObj(kind, plan, prev, parent) ==
    [kind |-> kind, st |-> "running", rc |-> None,
     inp |-> IF plan.stdin = "prev" THEN prev ELSE 0,
     outKind |-> plan.stdout,
     rd |-> IF IsComposite(kind) THEN "na"
            ELSE IF kind = "os" THEN "open" ELSE "init",
     tpc |-> IF IsComposite(kind) THEN "build1" ELSE "na",
     sub |-> <<0, 0>>, prev |-> prev, parent |-> parent, exc |-> FALSE]

\* os.pipe(): empty, the write end open, the parent's read end open.
NewPipe == [buf |-> <<>>, wopen |-> TRUE, ropen |-> TRUE]

\* The pipe an object's stdout is, created by Popen or by _get_handles when
\* stdout is PIPE.
WithPipe(ps, id, plan) ==
    IF plan.stdout = "pipe"
    THEN [q \in DOMAIN ps \cup {id} |-> IF q = id THEN NewPipe ELSE ps[q]]
    ELSE ps
WithObj(os, id, o) ==
    [q \in DOMAIN os \cup {id} |-> IF q = id THEN o ELSE os[q]]

NoJob == [set |-> FALSE, obj |-> 0, bg |-> FALSE, pids |-> <<>>]
\* add_job(info)
add_job(job, info) ==
    [set |-> TRUE, obj |-> info.obj, bg |-> info.bg, pids |-> info.pids]

\* AndProc.run / OrProc.run after cmd1's wait(): whether cmd2 is run.
RunsCmd2MutAlways(kind, ok1) == TRUE
RunsCmd2(kind, ok1) == IF kind = "and" THEN ok1 ELSE ~ok1

\* run_subproc after add_job: return at once for a background pipeline.
AfterAddJobMutNoBackground(bg, prevIsProxy) ==
    IF prevIsProxy THEN "waitproxy" ELSE "waitjob"
AfterAddJob(bg, prevIsProxy) ==
    IF bg THEN "returned"
    ELSE IF prevIsProxy THEN "waitproxy" ELSE "waitjob"

(***************************************************************************)
(* Idle values of each group of variables                                  *)
(***************************************************************************)

AliasIdle ==
    /\ raw = <<>> /\ akey = "" /\ apc = "idle" /\ aval = NoneValue
    /\ aseen = {} /\ aacc = <<>> /\ acalls = 0 /\ aresult = NoneValue
    /\ afirst = NoneValue /\ astage = NoStage

RedirIdle ==
    /\ rstreams = <<>> /\ rprev = <<>> /\ rtok = "" /\ rloc = NoLoc
    /\ rerr = "" /\ rcount = 0
    /\ rassigned = [s \in StreamNames |-> 0]

PipeIdle ==
    /\ nstages = 0 /\ background = FALSE /\ captured = FALSE
    /\ pc = "idle" /\ ix = 1 /\ cix = 1 /\ procs = <<>> /\ objs = <<>>
    /\ pipes = <<>> /\ activeJob = NoJob /\ output = <<>>
    /\ result = NoResult /\ err = "" /\ waited = {} /\ readFrom = {}
    /\ written = <<>>

ParseRun(cmd) == [cmd |-> cmd, streams |-> <<>>, err |-> "", done |-> FALSE]
ParseIdle == prun = [s \in {"A", "B"} |-> ParseRun(<<>>)]

JobIdle == jactive = NoJob /\ jkids = <<>> /\ jpc = "idle" /\ jlast = ""

\* No script has been resolved.
ShebangIdle == sfile = <<>> /\ sargs = <<>> /\ swin = FALSE /\ sres = <<>>

\* No stage is under construction on its own.
WireIdle == wstage = <<>> /\ wrun = <<>>
\* No simple proc-proxy is running.
AmbientIdle == ambient = <<>> /\ rthreads = <<>>

NotAlias == <<redirVars, parseVars, pipeVars, jobVars,
    shebangVars, wireVars, ambientVars>>
NotRedir == <<aliasVars, parseVars, pipeVars, jobVars,
    shebangVars, wireVars, ambientVars>>
NotParse == <<aliasVars, redirVars, pipeVars, jobVars,
    shebangVars, wireVars, ambientVars>>
NotPipe == <<aliasVars, redirVars, parseVars, jobVars,
    shebangVars, wireVars, ambientVars>>
NotJob == <<aliasVars, redirVars, parseVars, pipeVars,
    shebangVars, wireVars, ambientVars>>
NotShebang == <<aliasVars, redirVars, parseVars, pipeVars,
    jobVars, wireVars, ambientVars>>
NotWire == <<aliasVars, redirVars, parseVars, pipeVars,
    jobVars, shebangVars, ambientVars>>
NotAmbient == <<aliasVars, redirVars, parseVars, pipeVars,
    jobVars, shebangVars, wireVars>>

(***************************************************************************)
(* Aliases.get                                                             *)
(***************************************************************************)

AliasInit ==
    /\ raw \in AliasTables
    /\ akey = "" /\ apc = "idle" /\ aval = NoneValue /\ aseen = {}
    /\ aacc = <<>> /\ acalls = 0 /\ aresult = NoneValue
    /\ afirst = NoneValue /\ astage = NoStage
    /\ RedirIdle /\ ParseIdle /\ PipeIdle /\ JobIdle /\ ShebangIdle
    /\ WireIdle /\ AmbientIdle

\* Aliases.get(key): a missing key returns the default (None).
AliasGet(key) ==
    /\ apc = "idle"
    /\ akey' = key
    /\ IF key \notin DOMAIN raw
       THEN /\ apc' = "done" /\ aresult' = NoneValue
            /\ UNCHANGED <<aval, aseen, aacc, acalls>>
       ELSE /\ apc' = "eval" /\ aval' = raw[key] /\ aseen' = {key}
            /\ aacc' = <<>> /\ acalls' = 1 /\ UNCHANGED aresult
    /\ UNCHANGED <<raw, resolverVars, NotAlias>>

\* One invocation of eval_alias that returns.
EvalAliasReturn ==
    /\ apc = "eval"
    /\ \/ /\ aval.isCallable
          /\ aresult' = EvalCallable(aval, aacc)
       \/ /\ ~aval.isCallable
          /\ Stops(Head(aval.toks), aseen, raw)
          /\ aresult' = TokenList(aval.toks \o aacc)
    /\ apc' = "done"
    /\ UNCHANGED <<raw, akey, aval, aseen, aacc, acalls, resolverVars, NotAlias>>

\* One invocation of eval_alias that recurses on the left-most token.
EvalAliasRecurseMutAppend ==
    /\ apc = "eval"
    /\ ~aval.isCallable
    /\ ~Stops(Head(aval.toks), aseen, raw)
    /\ acalls < CallCap
    /\ aval' = raw[Head(aval.toks)]
    /\ aseen' = aseen \cup {Head(aval.toks)}
    /\ aacc' = aacc \o Tail(aval.toks)
    /\ acalls' = acalls + 1
    /\ UNCHANGED <<raw, akey, apc, aresult, resolverVars, NotAlias>>
EvalAliasRecurse ==
    /\ apc = "eval"
    /\ ~aval.isCallable
    /\ ~Stops(Head(aval.toks), aseen, raw)
    /\ acalls < CallCap
    /\ aval' = raw[Head(aval.toks)]
    /\ aseen' = aseen \cup {Head(aval.toks)}
    /\ aacc' = Tail(aval.toks) \o aacc
    /\ acalls' = acalls + 1
    /\ UNCHANGED <<raw, akey, apc, aresult, resolverVars, NotAlias>>

\* get_proc takes the list a lookup returned as a command and looks up its
\* head: alias = builtins.aliases.get(cmd[0], None).
AliasGetAgain ==
    /\ apc = "done" /\ afirst = NoneValue /\ astage = NoStage
    /\ ~aresult.isCallable /\ aresult.toks # <<>>
    /\ afirst' = aresult
    /\ akey' = Head(aresult.toks)
    /\ IF Head(aresult.toks) \notin DOMAIN raw
       THEN /\ apc' = "done" /\ aresult' = NoneValue
            /\ UNCHANGED <<aval, aseen, aacc, acalls>>
       ELSE /\ apc' = "eval" /\ aval' = raw[Head(aresult.toks)]
            /\ aseen' = {Head(aresult.toks)}
            /\ aacc' = <<>> /\ acalls' = 1 /\ UNCHANGED aresult
    /\ UNCHANGED <<raw, astage, NotAlias>>

\* get_proc for a command `akey args` whose alias is callable: the proxy is
\* constructed, its class chosen by the callable's number of parameters.
BuildStage(args) ==
    /\ apc = "done" /\ afirst = NoneValue /\ astage = NoStage
    /\ aresult.isCallable
    /\ astage' = [NoStage EXCEPT !.cls = ProxyClass(aresult), !.args = args]
    /\ UNCHANGED <<raw, akey, apc, aval, aseen, aacc, acalls, aresult, afirst,
                   NotAlias>>

\* The proxy's worker calls its function; `ok` is whether the callable, once
\* entered, returns without raising.
StageRun(ok) ==
    /\ astage.cls # "" /\ ~astage.ran
    /\ \E call \in {WorkerCall(aresult, astage.cls, astage.args)} :
          astage' = [astage EXCEPT
                        !.ran = TRUE, !.calls = call.calls,
                        !.callArgs = call.callArgs,
                        !.rc = IF call.calls = 1 /\ ok THEN "True"
                               ELSE IF astage.cls = "ProcProxy" THEN "None"
                               ELSE "False"]
    /\ UNCHANGED <<raw, akey, apc, aval, aseen, aacc, acalls, aresult, afirst,
                   NotAlias>>

AliasNext ==
    \/ \E k \in AliasNames : AliasGet(k)
    \/ EvalAliasReturn
    \/ EvalAliasRecurse
    \/ AliasGetAgain
    \/ \E args \in CmdArgs : BuildStage(args)
    \/ \E ok \in BOOLEAN : StageRun(ok)

SpecAlias == AliasInit /\ [][AliasNext]_vars

(***************************************************************************)
(* _redirect_io applied call after call to one stage's stream map          *)
(***************************************************************************)

RedirInit == RedirIdle /\ AliasIdle /\ ParseIdle /\ PipeIdle /\ JobIdle
    /\ ShebangIdle /\ WireIdle /\ AmbientIdle

RedirectIoCall(r, loc) ==
    /\ rcount < MaxRedirCalls
    /\ LET res == _redirect_io(rstreams, r, loc) IN
        /\ rstreams' = res.streams
        /\ rerr' = res.err
        /\ rassigned' = [s \in StreamNames |->
                            rassigned[s] + (IF s \in res.assigned THEN 1 ELSE 0)]
    /\ rprev' = rstreams
    /\ rtok' = r
    /\ rloc' = loc
    /\ rcount' = rcount + 1
    /\ UNCHANGED NotRedir

RedirNext == \E r \in RedirTokens, loc \in Paths \cup {NoLoc} : RedirectIoCall(r, loc)

SpecRedir == RedirInit /\ [][RedirNext]_vars

(***************************************************************************)
(* get_proc's redirection loop on a stage's tokens, in both orders of two  *)
(* redirections                                                            *)
(***************************************************************************)

\* A redirection as the parser emits it: a token with its file name, or a
\* token that carries its target itself.
Redirections ==
    {<<t, f>> : t \in {">", ">>", "<", "2>", "a>"}, f \in Paths}
        \cup {<<t>> : t \in {"2>1", "2>&1", ">&2", "<&0"}}

\* The streams a redirection binds when it is the only one of its stage.
RedirStreams(rd) ==
    _redirect_io(<<>>, rd[1], IF Len(rd) = 2 THEN rd[2] ELSE NoLoc).assigned

ParseInit ==
    /\ \E base \in {<<"cmd">>, <<"cmd", "arg">>}, r1 \in Redirections,
          r2 \in Redirections :
        /\ RedirStreams(r1) # {} /\ RedirStreams(r2) # {}
        /\ RedirStreams(r1) \cap RedirStreams(r2) = {}
        /\ prun = [s \in {"A", "B"} |->
                     ParseRun(IF s = "A" THEN base \o r1 \o r2
                              ELSE base \o r2 \o r1)]
    /\ AliasIdle /\ RedirIdle /\ PipeIdle /\ JobIdle /\ ShebangIdle
    /\ WireIdle /\ AmbientIdle

ParseStep(side) ==
    /\ ~prun[side].done
    /\ LET it == ParseIter(prun[side].cmd, prun[side].streams) IN
        prun' = [prun EXCEPT ![side] =
                    [cmd |-> it.cmd, streams |-> it.streams, err |-> it.err,
                     done |-> ~it.more]]
    /\ UNCHANGED NotParse

ParseNext == \E side \in {"A", "B"} : ParseStep(side)

SpecParse == ParseInit /\ [][ParseNext]_vars

(***************************************************************************)
(* run_subproc, the workers of the stages it starts, the job registry      *)
(***************************************************************************)

PipeInit ==
    /\ nstages \in 0..MaxStages
    /\ background \in BOOLEAN
    /\ captured \in BOOLEAN
    /\ pc = "start" /\ ix = 1 /\ cix = 1 /\ procs = <<>> /\ objs = <<>>
    /\ pipes = <<>> /\ activeJob = NoJob /\ output = <<>>
    /\ result = NoResult /\ err = "" /\ waited = {} /\ readFrom = {}
    /\ written = <<>>
    /\ AliasIdle /\ RedirIdle /\ ParseIdle /\ JobIdle /\ ShebangIdle
    /\ WireIdle /\ AmbientIdle

prev_proc == IF procs = <<>> THEN 0 ELSE Last(procs)

\* cmds[-1] == '&': indexing an empty list raises.
RunStart ==
    /\ pc = "start"
    /\ IF nstages = 0 /\ ~background
       THEN pc' = "raised" /\ err' = ErrIndex
       ELSE pc' = (IF nstages = 0 THEN "close" ELSE "build") /\ err' = err
    /\ UNCHANGED <<nstages, background, captured, ix, cix, procs, objs, pipes,
                   activeJob, output, result, waited, readFrom, written, NotPipe>>

\* One iteration of `for ix, cmd in enumerate(cmds)`: get_proc builds and
\* starts the stage, or raises.
NumComposite == Cardinality({o \in DOMAIN objs : IsComposite(objs[o].kind)})

ExecGetProc(d) ==
    /\ pc = "build"
    /\ d.typ # "cmd" => NumComposite < MaxComposite
    /\ \E plan \in {get_proc(d, prev_proc # 0, ix = nstages, captured)} :
           IF plan.err # ""
           THEN /\ pc' = "raised" /\ err' = plan.err
                /\ UNCHANGED <<ix, procs, objs, pipes>>
           ELSE /\ objs' = WithObj(objs, ix,
                                   NewObj(IF d.typ = "cmd" THEN d.kind
                                          ELSE d.typ, plan, prev_proc, 0))
                /\ pipes' = WithPipe(pipes, ix, plan)
                /\ procs' = Append(procs, ix)
                /\ ix' = ix + 1
                /\ pc' = IF ix = nstages THEN "close" ELSE "build"
                /\ err' = err
    /\ UNCHANGED <<nstages, background, captured, cix, activeJob, output,
                   result, waited, readFrom, written, NotPipe>>

\* Whether a proxy's worker is inside a read() of object p's stdout, holding
\* the lock of that buffered reader.
ReadInProgress(p) ==
    \E o \in DOMAIN objs :
        objs[o].inp = p /\ objs[o].rd = "reading" /\ objs[o].st = "running"

\* One iteration of `for proc in procs[:-1]: proc.stdout.close()`.  close()
\* takes the reader's lock, which a read() in progress holds.
ExecClose ==
    /\ pc = "close"
    /\ cix < Len(procs)
    /\ ~ReadInProgress(procs[cix])
    /\ pipes' = [pipes EXCEPT ![procs[cix]].ropen = FALSE]
    /\ cix' = cix + 1
    /\ UNCHANGED <<nstages, background, captured, pc, ix, procs, objs,
                   activeJob, output, result, err, waited, readFrom, written, NotPipe>>

\* add_job unless the last stage is a ProcProxy, then `if background: return`.
ExecAddJob ==
    /\ pc = "close"
    /\ cix >= Len(procs)
    /\ LET prevIsProxy == prev_proc # 0 /\ IsProxyKind(objs[prev_proc].kind) IN
        /\ activeJob' = IF prevIsProxy THEN activeJob
                        ELSE add_job(activeJob,
                                     [obj |-> prev_proc, bg |-> background,
                                      \* [i.pid for i in procs]: the pid of
                                      \* a Popen, None (0) of a ProcProxy
                                      pids |-> [k \in DOMAIN procs |->
                                          IF objs[procs[k]].kind = "os"
                                          THEN procs[k] ELSE 0]])
        /\ pc' = AfterAddJob(background, prevIsProxy)
        /\ result' = IF AfterAddJob(background, prevIsProxy) = "returned"
                     THEN Value(None) ELSE result
    /\ UNCHANGED <<nstages, background, captured, ix, cix, procs, objs, pipes,
                   output, err, waited, readFrom, written, NotPipe>>

\* prev_proc.wait() for a proxy: Thread.join.
ExecWaitProxy ==
    /\ pc = "waitproxy"
    /\ objs[prev_proc].st = "done"
    /\ waited' = waited \cup {prev_proc}
    /\ pc' = "waitjob"
    /\ UNCHANGED <<nstages, background, captured, ix, cix, procs, objs, pipes,
                   activeJob, output, result, err, readFrom, written, NotPipe>>

\* wait_for_active_job(): returns when there is no active job, else waits on
\* the active job's object.
wait_for_active_job ==
    /\ pc = "waitjob"
    /\ IF ~activeJob.set
       THEN pc' = "output" /\ UNCHANGED <<waited, err>>
       ELSE IF activeJob.obj = 0
       THEN pc' = "raised" /\ err' = ErrAttr /\ UNCHANGED waited
       ELSE /\ objs[activeJob.obj].st = "done"
            /\ waited' = waited \cup {activeJob.obj}
            /\ pc' = "output" /\ UNCHANGED err
    /\ UNCHANGED <<nstages, background, captured, ix, cix, procs, objs, pipes,
                   activeJob, output, result, readFrom, written, NotPipe>>

\* `if prev_proc.stdout not in (None, sys.stdout)`
ExecOutput ==
    /\ pc = "output"
    /\ pc' = IF objs[prev_proc].outKind = "pipe" THEN "reading" ELSE "return"
    /\ UNCHANGED <<nstages, background, captured, ix, cix, procs, objs, pipes,
                   activeJob, output, result, err, waited, readFrom, written, NotPipe>>

\* prev_proc.stdout.read(): takes what the pipe holds ...
ExecRead ==
    /\ pc = "reading"
    /\ pipes[prev_proc].buf # <<>>
    /\ output' = output \o pipes[prev_proc].buf
    /\ pipes' = [pipes EXCEPT ![prev_proc].buf = <<>>]
    /\ readFrom' = readFrom \cup {prev_proc}
    /\ UNCHANGED <<nstages, background, captured, pc, ix, cix, procs, objs,
                   activeJob, result, err, waited, written, NotPipe>>

\* ... and returns at end of file: the pipe empty, no write end open.
ExecReadEof ==
    /\ pc = "reading"
    /\ pipes[prev_proc].buf = <<>>
    /\ ~pipes[prev_proc].wopen
    /\ readFrom' = readFrom \cup {prev_proc}
    /\ pc' = "return"
    /\ UNCHANGED <<nstages, background, captured, ix, cix, procs, objs, pipes,
                   activeJob, output, result, err, waited, written, NotPipe>>

\* `if captured: return output`, else `return get_return_code(prev_proc)`.
ExecReturn ==
    /\ pc = "return"
    /\ result' = IF captured THEN Str(output)
                 ELSE Value(PyBool(get_return_code(objs[prev_proc].rc)))
    /\ pc' = "returned"
    /\ UNCHANGED <<nstages, background, captured, ix, cix, procs, objs, pipes,
                   activeJob, output, err, waited, readFrom, written, NotPipe>>

ExecUnchanged ==
    UNCHANGED <<nstages, background, captured, pc, ix, cix, procs, activeJob,
                output, result, err, waited, readFrom, written, NotPipe>>

IsWorker(o) ==
    o \in DOMAIN objs /\ objs[o].st = "running" /\ ~IsComposite(objs[o].kind)
IsProxyWorker(o) == IsWorker(o) /\ objs[o].kind \in {"proxy4", "simple"}

\* The worker ends: returncode is set, and the write end of its stdout pipe
\* is closed unless `keepOpen`.
Finish(o, rc, exc, keepOpen) ==
    /\ objs' = [objs EXCEPT ![o].st = "done", ![o].rc = rc, ![o].exc = exc,
                            ![o].rd = "na"]
    /\ pipes' = IF objs[o].outKind = "pipe" /\ ~keepOpen
                THEN [pipes EXCEPT ![o].wopen = FALSE] ELSE pipes

\* A proxy keeps of a file given as its stdout only the descriptor number
\* (c2pwrite = stdout.fileno()); the file object is released, and the
\* descriptor closed with it, when get_proc returns, while the worker started
\* in the constructor is running: whether the worker still finds the
\* descriptor open is either.
FdOpen(o) == IF objs[o].outKind = "file" THEN BOOLEAN ELSE {TRUE}

\* ProcProxy.run: sp_stdin = io.TextIOWrapper(self.stdin), or an empty
\* StringIO, then sp_stdout = io.TextIOWrapper(io.open(self.c2pwrite)).
\* Wrapping a closed reader raises before c2pwrite is opened; opening a closed
\* descriptor raises.
ProxyWrap(o) ==
    /\ IsProxyWorker(o)
    /\ objs[o].rd = "init"
    /\ \E open \in FdOpen(o) :
        IF objs[o].inp # 0 /\ ~pipes[objs[o].inp].ropen
        THEN Finish(o, None, TRUE, TRUE)
        ELSE IF ~open
        THEN Finish(o, None, TRUE, TRUE)
        ELSE /\ objs' = [objs EXCEPT ![o].rd = IF objs[o].inp = 0 THEN "eof"
                                                ELSE "wrapped"]
             /\ pipes' = pipes
    /\ ExecUnchanged

\* The callable calls stdin.read(); on a closed reader this raises, which
\* wrapped_simple_command turns into False.
ProxyReadStart(o) ==
    /\ IsProxyWorker(o)
    /\ objs[o].rd = "wrapped"
    /\ IF pipes[objs[o].inp].ropen
       THEN objs' = [objs EXCEPT ![o].rd = "reading"] /\ pipes' = pipes
       ELSE IF objs[o].kind = "simple"
       THEN Finish(o, PyBool(FALSE), FALSE, FALSE)
       ELSE Finish(o, None, TRUE, FALSE)
    /\ ExecUnchanged

Reading(o) ==
    /\ IsWorker(o)
    /\ objs[o].inp # 0
    /\ objs[o].rd = (IF objs[o].kind = "os" THEN "open" ELSE "reading")

\* The worker takes what its stdin pipe holds.
WorkerRead(o) ==
    /\ Reading(o)
    /\ pipes[objs[o].inp].buf # <<>>
    /\ pipes' = [pipes EXCEPT ![objs[o].inp].buf = <<>>]
    /\ UNCHANGED objs
    /\ ExecUnchanged

\* A proxy's read() returns at end of file: the pipe empty, no write end
\* open.
AtEof(p) == pipes[p].buf = <<>> /\ ~pipes[p].wopen
WorkerEof(o) ==
    /\ Reading(o)
    /\ objs[o].kind # "os"
    /\ AtEof(objs[o].inp)
    /\ objs' = [objs EXCEPT ![o].rd = "eof"]
    /\ UNCHANGED pipes
    /\ ExecUnchanged

\* Whether the worker's callable or program is past its input: a two-argument
\* callable is called with all of stdin.
PastInput(o) ==
    CASE objs[o].kind = "simple" -> objs[o].rd = "eof"
      [] objs[o].kind = "proxy4" -> objs[o].rd \in {"wrapped", "eof"}
      [] OTHER -> TRUE

\* The worker writes a byte to its stdout; a full pipe blocks it.  (What is
\* written to an inherited stdout goes to the terminal and is not followed.)
\* A proxy's byte for a file whose descriptor is closed before the buffered
\* writer is flushed is lost: it is logged as 0 - o.
WorkerWrite(o) ==
    /\ IsWorker(o)
    /\ PastInput(o)
    /\ Len(written) < MaxOut
    /\ objs[o].outKind # "inherit"
    /\ IF objs[o].outKind = "pipe"
       THEN /\ Len(pipes[o].buf) < PipeCap
            /\ pipes' = [pipes EXCEPT ![o].buf = Append(@, o)]
       ELSE pipes' = pipes
    /\ \E open \in (IF objs[o].kind = "os" THEN {TRUE} ELSE FdOpen(o)) :
          written' = Append(written, IF open THEN o ELSE 0 - o)
    /\ UNCHANGED <<nstages, background, captured, pc, ix, cix, procs, objs,
                   activeJob, output, result, err, waited, readFrom, NotPipe>>

\* What a worker ends with: an OS child's exit code; what self.f returned
\* for a proxy (None or False from a four-argument callable, True or False
\* from wrapped_simple_command), or Exception when a four-argument callable
\* raised.
Exception == [type |-> "exception", b |-> FALSE, n |-> 0]
ExitCodes(kind) ==
    CASE kind = "os" -> {PyInt(0), PyInt(1)}
      [] kind = "proxy4" -> {None, PyBool(FALSE), Exception}
      [] kind = "simple" -> {PyBool(TRUE), PyBool(FALSE)}

\* self.returncode = r if r is not None else True
returncode(r) == IF r = None THEN PyBool(TRUE) ELSE r

WorkerExit(o, r) ==
    /\ IsWorker(o)
    /\ PastInput(o)
    /\ r \in ExitCodes(objs[o].kind)
    /\ Finish(o, IF objs[o].kind = "os" THEN r
                 ELSE IF r = Exception THEN None ELSE returncode(r),
              r = Exception, FALSE)
    /\ ExecUnchanged

IsCompositeThread(c) ==
    c \in DOMAIN objs /\ objs[c].st = "running" /\ IsComposite(objs[c].kind)

\* AndProc.run / OrProc.run: o = get_proc(cmd, prev_proc, uninew, captured).
\* An exception ends the thread with returncode still None.
CompGetProc(c, d) ==
    /\ IsCompositeThread(c)
    /\ objs[c].tpc \in {"build1", "build2"}
    /\ \E k \in {IF objs[c].tpc = "build1" THEN 1 ELSE 2},
          prev \in {objs[c].prev},
          plan \in {get_proc(d, objs[c].prev # 0, c = nstages, captured)} :
           IF \/ plan.err # ""
              \/ plan.stdin = "prev" /\ ~pipes[prev].ropen
           THEN /\ objs' = [objs EXCEPT ![c].st = "done", ![c].exc = TRUE,
                                        ![c].tpc = "dead"]
                /\ pipes' = pipes
           ELSE /\ objs' = WithObj(
                    [objs EXCEPT ![c].sub[k] = SubId(c, k),
                                 ![c].tpc = IF k = 1 THEN "wait1" ELSE "wait2"],
                    SubId(c, k), NewObj(d.kind, plan, prev, c))
                /\ pipes' = WithPipe(pipes, SubId(c, k), plan)
    /\ ExecUnchanged

\* o.wait() and what follows it.
CompWait(c) ==
    /\ IsCompositeThread(c)
    /\ objs[c].tpc \in {"wait1", "wait2"}
    /\ LET k == IF objs[c].tpc = "wait1" THEN 1 ELSE 2
           o == objs[objs[c].sub[k]]
           ok == get_return_code(o.rc)
       IN  /\ o.st = "done"
           /\ IF k = 1 /\ RunsCmd2(objs[c].kind, ok)
              THEN objs' = [objs EXCEPT ![c].tpc = "build2"]
              ELSE objs' = [objs EXCEPT ![c].st = "done", ![c].tpc = "end",
                                        ![c].rc = PyBool(ok)]
    /\ UNCHANGED pipes
    /\ ExecUnchanged

Ids == 1..(3 * MaxStages)

Next ==
    \/ RunStart
    \/ \E d \in StageDescs : ExecGetProc(d)
    \/ ExecClose
    \/ ExecAddJob
    \/ ExecWaitProxy
    \/ wait_for_active_job
    \/ ExecOutput
    \/ ExecRead
    \/ ExecReadEof
    \/ ExecReturn
    \/ \E o \in Ids : ProxyWrap(o)
    \/ \E o \in Ids : ProxyReadStart(o)
    \/ \E o \in Ids : WorkerRead(o)
    \/ \E o \in Ids : WorkerEof(o)
    \/ \E o \in Ids : WorkerWrite(o)
    \/ \E o \in Ids, r \in ExitCodes("os") \cup ExitCodes("proxy4")
                                \cup ExitCodes("simple") : WorkerExit(o, r)
    \/ \E c \in Ids, d \in SubCmdDescs : CompGetProc(c, d)
    \/ \E c \in Ids : CompWait(c)

Spec == PipeInit /\ [][Next]_vars

(***************************************************************************)
(* The job registry under calls of add_job, wait_for_active_job and        *)
(* kill_all_jobs, with the OS children of the registered jobs              *)
(***************************************************************************)

\* Most jobs registered in one session.
MaxJobs == 3

JobInit ==
    /\ jactive = NoJob /\ jkids = <<>> /\ jpc = "idle" /\ jlast = ""
    /\ AliasIdle /\ RedirIdle /\ ParseIdle /\ PipeIdle /\ ShebangIdle
    /\ WireIdle /\ AmbientIdle

\* run_subproc registers a pipeline whose terminal stage is the OS child it
\* has just spawned: add_job({'obj': prev_proc, 'bg': background, ...}).
JobAdd(bg) ==
    /\ jpc = "idle"
    /\ Len(jkids) < MaxJobs
    /\ jkids' = Append(jkids, "running")
    /\ jactive' = add_job(jactive, [obj |-> Len(jkids) + 1, bg |-> bg,
                                    pids |-> <<Len(jkids) + 1>>])
    /\ jlast' = "add_job"
    /\ UNCHANGED <<jpc, NotJob>>

\* An OS child ends by itself.
JobChildExit(k) ==
    /\ k \in DOMAIN jkids
    /\ jkids[k] = "running"
    /\ jkids' = [jkids EXCEPT ![k] = "exited"]
    /\ UNCHANGED <<jactive, jpc, jlast, NotJob>>

\* wait_for_active_job(): returns at once when _active_job is None, else
\* calls obj.wait().
JobWaitCall ==
    /\ jpc = "idle"
    /\ IF ~jactive.set
       THEN jlast' = "wait" /\ UNCHANGED jpc
       ELSE jpc' = "waiting" /\ UNCHANGED jlast
    /\ UNCHANGED <<jactive, jkids, NotJob>>

\* obj.wait() returns once the child has ended; obj.done = True; return.
JobWaitReturn ==
    /\ jpc = "waiting"
    /\ jkids[jactive.obj] # "running"
    /\ jkids' = [jkids EXCEPT ![jactive.obj] = "reaped"]
    /\ jpc' = "idle"
    /\ jlast' = "wait"
    /\ UNCHANGED <<jactive, NotJob>>

\* kill_all_jobs(): pass.
kill_all_jobs ==
    /\ jpc = "idle"
    /\ jlast' = "kill"
    /\ UNCHANGED <<jactive, jkids, jpc, NotJob>>

JobNext ==
    \/ \E bg \in BOOLEAN : JobAdd(bg)
    \/ \E k \in 1..MaxJobs : JobChildExit(k)
    \/ JobWaitCall
    \/ JobWaitReturn
    \/ kill_all_jobs

SpecJobs == JobInit /\ [][JobNext]_vars

(***************************************************************************)
(* The interpreter of a script: get_script_subproc_command                 *)
(***************************************************************************)

\* Most words on a script's first line after `#!`.
MaxInterp == 2

\* A word is the string dir + "/" + base, or base alone when dir is "".
Word(dir, base) == [dir |-> dir, base |-> base]

\* The words a first line can hold.
ShebangWords ==
    {Word("/usr/bin", "env"), Word("/usr/bin", "python3"),
     Word("/usr/bin", "python.exe"), Word("/usr/local/bin", "xonsh"),
     Word("/bin", "sh"), Word("/binx", "sh"), Word("/opt/py", "python"),
     Word("", "python.exe"), Word("", "python3"), Word("", "xonsh"),
     Word("/opt", "xonsh")}

\* _un_shebang(x).  startswith is a test on the string: "/binx/sh" starts
\* with "/bin".
_un_shebang(x) ==
    IF x = Word("/usr/bin", "env") THEN <<>>
    ELSE LET y == IF x.dir \in {"/usr/bin", "/usr/local/bin", "/bin", "/binx"}
                    THEN Word("", x.base)
                  ELSE IF x.base \in {"python", "python.exe"}
                    THEN Word("", "python")
                  ELSE x
         IN  IF y = Word("", "xonsh")
               THEN <<Word("", "python"), Word("", "-m"), Word("", "xonsh.main")>>
             ELSE <<y>>

\* for i in interp: o.extend(_un_shebang(i))
RECURSIVE UnShebangAll(_)
UnShebangAll(interp) ==
    IF interp = <<>> THEN <<>>
    ELSE _un_shebang(Head(interp)) \o UnShebangAll(Tail(interp))

\* The scripts: whether os.access(fname, X_OK) holds, whether _is_binary
\* finds a NUL, whether the extension is in PATHEXT, and the words of the
\* first line after `#!` (<<>> when the line is no shebang line).
ScriptFiles ==
    [path : {Word("/tmp", "x")}, exec : BOOLEAN, binary : BOOLEAN,
     pathext : BOOLEAN,
     shebang : {<<>>} \cup SeqsUpTo(ShebangWords, MaxInterp)]

\* interp as read from the first line: the shell when there is no shebang.
Interp(f) == IF f.shebang = <<>> THEN <<Word("", "xonsh")>> ELSE f.shebang

\* The variant that normalises the interpreter on every platform.
get_script_subproc_commandMutAlways(f, args, win) ==
    IF ~f.exec THEN [err |-> "PermissionError", argv |-> <<>>]
    ELSE IF f.binary \/ (win /\ f.pathext)
      THEN [err |-> "", argv |-> <<f.path>> \o args]
    ELSE [err |-> "", argv |-> UnShebangAll(Interp(f)) \o <<f.path>> \o args]

get_script_subproc_command(f, args, win) ==
    IF ~f.exec THEN [err |-> "PermissionError", argv |-> <<>>]
    ELSE IF f.binary \/ (win /\ f.pathext)
      THEN [err |-> "", argv |-> <<f.path>> \o args]
    ELSE [err |-> "",
          argv |-> (IF win THEN UnShebangAll(Interp(f)) ELSE Interp(f))
                   \o <<f.path>> \o args]

\* Any script, any arguments, either platform; nothing resolved yet.
ShebangInit ==
    /\ sfile \in ScriptFiles
    /\ sargs \in {<<>>, <<Word("", "a")>>}
    /\ swin \in BOOLEAN
    /\ sres = <<>>
    /\ AliasIdle /\ RedirIdle /\ ParseIdle /\ PipeIdle /\ JobIdle
    /\ WireIdle /\ AmbientIdle

\* The call of get_script_subproc_command(fname, args).
ShebangResolve ==
    /\ sres = <<>>
    /\ sres' = get_script_subproc_command(sfile, sargs, swin)
    /\ UNCHANGED <<sfile, sargs, swin, NotShebang>>

SpecShebang == ShebangInit /\ [][ShebangResolve]_vars

(***************************************************************************)
(* One call of get_proc on a stage of kind `cmd`, from its redirection     *)
(* loop to the choice of stdin and stdout                                  *)
(***************************************************************************)

\* Any command with up to two redirections after it, or one `<` before it.
WireInit ==
    /\ \E toks \in {<<"cmd">>, <<"<", "f", "cmd">>}
                  \cup {<<"cmd">> \o r : r \in Redirections}
                  \cup {<<"cmd">> \o r1 \o r2 : r1, r2 \in Redirections},
          hasPrev, uninew, capt \in BOOLEAN :
        /\ wstage = [toks |-> toks, hasPrev |-> hasPrev, uninew |-> uninew,
                     captured |-> capt]
        /\ wrun = [cmd |-> toks, streams |-> <<>>, err |-> "", at |-> "loop",
                   stdin |-> "", stdout |-> ""]
    /\ AliasIdle /\ RedirIdle /\ ParseIdle /\ PipeIdle /\ JobIdle
    /\ ShebangIdle /\ AmbientIdle

\* One iteration of the `while True` loop over the tokens.
WireParse ==
    /\ wrun # <<>> /\ wrun.at = "loop"
    /\ \E it \in {ParseIter(wrun.cmd, wrun.streams)} :
        wrun' = [wrun EXCEPT !.cmd = it.cmd, !.streams = it.streams,
                             !.err = it.err,
                             !.at = IF it.err # "" THEN "raised"
                                    ELSE IF it.more THEN "loop" ELSE "wire"]
    /\ UNCHANGED <<wstage, NotWire>>

\* `# set standard input` and `# set standard output`.
WireStreams ==
    /\ wrun # <<>> /\ wrun.at = "wire"
    /\ \E plan \in {CmdPlan(wrun, "os", wstage.hasPrev, wstage.uninew,
                             wstage.captured)} :
        wrun' = [wrun EXCEPT !.err = plan.err, !.stdin = plan.stdin,
                             !.stdout = plan.stdout,
                             !.at = IF plan.err # "" THEN "refused"
                                    ELSE "built"]
    /\ UNCHANGED <<wstage, NotWire>>

SpecWire == WireInit /\ [][WireParse \/ WireStreams]_vars

(***************************************************************************)
(* Simple proc-proxies running at the same time, each redirecting the      *)
(* process-wide stdout and stderr around its callable                      *)
(***************************************************************************)

MaxWorkers == 3

\* The worker threads of two or more SimpleProcProxy stages that do not
\* wait for each other's output have been started by their constructors;
\* none has redirected anything yet.
AmbientInit ==
    /\ ambient = [stdout |-> 0, stderr |-> 0]
    /\ \E n \in 2..MaxWorkers :
        rthreads = [w \in 1..n |-> [at |-> "start", oldOut |-> 0,
                                    oldErr |-> 0]]
    /\ AliasIdle /\ RedirIdle /\ ParseIdle /\ PipeIdle /\ JobIdle
    /\ ShebangIdle /\ WireIdle

\* `with redirect_stdout(stdout), redirect_stderr(stderr):` is entered, one
\* redirection after the other: each keeps the stream it finds in place and
\* puts the worker's own stream there.
with_enter(w) ==
    /\ w \in DOMAIN rthreads
    /\ \/ /\ rthreads[w].at = "start"
          /\ rthreads' = [rthreads EXCEPT ![w].at = "stdout",
                                          ![w].oldOut = ambient.stdout]
          /\ ambient' = [ambient EXCEPT !.stdout = w]
       \/ /\ rthreads[w].at = "stdout"
          /\ rthreads' = [rthreads EXCEPT ![w].at = "called",
                                          ![w].oldErr = ambient.stderr]
          /\ ambient' = [ambient EXCEPT !.stderr = w]
    /\ UNCHANGED NotAmbient

\* f(args, i) has returned or raised and the `with` block is left, the
\* redirections in reverse order: each puts back the stream it kept.
with_exit(w) ==
    /\ w \in DOMAIN rthreads
    /\ \/ /\ rthreads[w].at = "called"
          /\ rthreads' = [rthreads EXCEPT ![w].at = "stderr"]
          /\ ambient' = [ambient EXCEPT !.stderr = rthreads[w].oldErr]
       \/ /\ rthreads[w].at = "stderr"
          /\ rthreads' = [rthreads EXCEPT ![w].at = "done"]
          /\ ambient' = [ambient EXCEPT !.stdout = rthreads[w].oldOut]
    /\ UNCHANGED NotAmbient

SpecAmbient ==
    AmbientInit /\ [][\E w \in 1..MaxWorkers : with_enter(w) \/ with_exit(w)]_vars

(***************************************************************************)
(* Claims                                                                  *)
(***************************************************************************)

\* Success of a returncode: a bool is itself, an int is success when 0,
\* anything else is failure.
Success(rc) == (rc.type = "bool" /\ rc.b) \/ (rc.type = "int" /\ rc.n = 0)
Composites == {c \in DOMAIN objs : IsComposite(objs[c].kind)}
Built(c, k) == objs[c].sub[k] # 0
SubDone(c, k) == Built(c, k) /\ objs[objs[c].sub[k]].st = "done"
SubOk(c, k) == Built(c, k) /\ Success(objs[objs[c].sub[k]].rc)
\* Whether cmd1's result leaves the outcome of composite c open.
NeedsCmd2(c) == IF objs[c].kind = "and" THEN SubOk(c, 1) ELSE ~SubOk(c, 1)

\* C1: cmd2 of an `and`/`or` stage is built only after cmd1's wait() has
\* returned and only when cmd1's success leaves the outcome open; a stage
\* that has a result has `cmd1 and cmd2` (`and`) or `cmd1 or cmd2` (`or`),
\* with cmd2 built exactly when it was needed.
C1_ShortCircuit ==
    \A c \in Composites :
        /\ objs[c].tpc \in {"build1", "wait1"} => ~Built(c, 2)
        /\ (Built(c, 2) \/ objs[c].tpc = "build2") =>
              SubDone(c, 1) /\ NeedsCmd2(c)
        /\ (objs[c].st = "done" /\ objs[c].rc # None) =>
              /\ SubDone(c, 1)
              /\ Built(c, 2) <=> NeedsCmd2(c)
              /\ Built(c, 2) => SubDone(c, 2)
              /\ objs[c].rc =
                    PyBool(IF objs[c].kind = "and"
                           THEN SubOk(c, 1) /\ SubOk(c, 2)
                           ELSE SubOk(c, 1) \/ SubOk(c, 2))

\* An `and` stage ran both sub-commands and is True; cmd1 exited 0.
C1_WitnessAndBoth ==
    \E c \in Composites :
        /\ objs[c].kind = "and" /\ objs[c].st = "done"
        /\ objs[c].rc = PyBool(TRUE)
        /\ SubDone(c, 2) /\ objs[objs[c].sub[1]].rc = PyInt(0)

\* The objects that are the terminal stage: the stage and, for a composite,
\* the sub-commands its run() built.
Terminal == IF Len(procs) = nstages /\ nstages > 0 THEN Last(procs) ELSE 0
TerminalGroup == {o \in DOMAIN objs : o = Terminal \/ objs[o].parent = Terminal}
IsTerminalByte(o) == o \in TerminalGroup

\* C2: in a captured foreground run whose terminal stage has no stdout
\* redirection, the bytes the terminal stage has written are, in order,
\* what run_subproc has read plus what waits in the pipe it reads, with no
\* byte of an earlier stage; the string returned is all of them.
C2_CapturedIsTerminalOutput ==
    (captured /\ ~background /\ Terminal # 0
        /\ objs[Terminal].outKind = "pipe") =>
        /\ output \o pipes[Terminal].buf = SelectSeq(written, IsTerminalByte)
        /\ pc = "returned" => result = Str(SelectSeq(written, IsTerminalByte))

\* C3: when nothing can take a step any more, no stage that is done and
\* feeds a stage that was built has the write end of its stdout pipe open.
C3_EofAfterExit ==
    \A i \in 1..(Len(procs) - 1) :
        (objs[i].st = "done" /\ ~ENABLED Next) => ~pipes[i].wopen

C5_BackgroundReturnsNone ==
    background =>
        /\ waited = {} /\ readFrom = {} /\ output = <<>>
        /\ pc \in {"start", "build", "close", "raised", "returned"}
        /\ pc = "returned" => result = Value(None)

\* A captured background run of two stages has returned None while its
\* stages are still running.
C5_WitnessStillRunning ==
    /\ background /\ captured /\ pc = "returned" /\ result = Value(None)
    /\ nstages = 2 /\ \A i \in 1..2 : objs[i].st = "running"

\* C6: a run of zero stages raises nothing, starts nothing, registers
\* nothing and returns success.
C6_ZeroStagesNoOp ==
    nstages = 0 =>
        /\ pc # "raised"
        /\ objs = <<>>
        /\ pc = "returned" => result = Value(PyBool(TRUE))

\* The errors that constructing a stage raises.
ConstructionErrors ==
    {ErrStdin, ErrStdout, ErrStderr, ErrUnrec, ErrNoFile, ErrDenied}

\* C7: when the construction of a stage has raised, no stage of the
\* pipeline has been started.
C7_NothingStartedOnError ==
    (pc = "raised" /\ err \in ConstructionErrors) => objs = <<>>

\* The streams a well-formed redirection token targets.
C8_Targets(tok, loc) ==
    CASE tok \in {">", ">>"} -> {"stdout"}
      [] tok = "2>" -> {"stderr"}
      [] tok = "a>" -> {"stdout", "stderr"}
      [] tok = "<" -> {"stdin"}
      [] tok \in {"2>1", "2>&1"} -> {"stderr"}
      [] tok = ">&2" /\ loc = NoLoc -> {"stdout"}
      [] tok = "<&0" /\ loc = NoLoc -> {"stdin"}
      [] OTHER -> {}
C8_MultipleError(s) ==
    CASE s = "stdin" -> ErrStdin [] s = "stdout" -> ErrStdout
      [] s = "stderr" -> ErrStderr

\* C8: a _redirect_io call that returns keeps every earlier binding and
\* assigns only streams that were unbound; a call whose target stream is
\* already bound raises that stream's error; a call that raises leaves the
\* map unchanged; no stream is assigned twice.
C8_BoundAtMostOnce ==
    /\ \A s \in StreamNames : rassigned[s] <= 1
    /\ \A s \in StreamNames : s \in DOMAIN rstreams <=> rassigned[s] = 1
    /\ rcount > 0 =>
        /\ rerr = "" =>
              /\ \A s \in DOMAIN rprev :
                    s \in DOMAIN rstreams /\ rstreams[s] = rprev[s]
              /\ DOMAIN rstreams # DOMAIN rprev
        /\ rerr # "" => rstreams = rprev
        /\ C8_Targets(rtok, rloc) \cap DOMAIN rprev # {} =>
              rerr \in {C8_MultipleError(s) :
                            s \in C8_Targets(rtok, rloc) \cap DOMAIN rprev}

\* `a> f` was refused because `2> g` had bound stderr, after `< f` and
\* `2> g` had each bound their stream.
C8_Witness ==
    /\ rcount = 3
    /\ rtok = "a>"
    /\ rerr = ErrStderr
    /\ DOMAIN rstreams = {"stdin", "stderr"}
    /\ rstreams = rprev

\* C9: the two orders of two redirections of distinct streams give the same
\* outcome of stage construction's redirection loop: the same error or none,
\* the same bindings, the same remaining command.
C9_OrderIndependent ==
    (prun["A"].done /\ prun["B"].done) =>
        /\ prun["A"].err = prun["B"].err
        /\ prun["A"].streams = prun["B"].streams
        /\ prun["A"].cmd = prun["B"].cmd

\* Both orders of `> f` and `2> g` were parsed to the same two bindings.
C9_WitnessFilePair ==
    /\ prun["A"].done /\ prun["B"].done
    /\ prun["A"].err = "" /\ prun["B"].err = ""
    /\ prun["A"].streams = prun["B"].streams
    /\ DOMAIN prun["A"].streams = {"stdout", "stderr"}
    /\ prun["A"].streams["stdout"] = FileBinding("f", "w")
    /\ prun["A"].streams["stderr"] = FileBinding("g", "w")

\* C10: a lookup makes at most (number of keys + 1) eval_alias calls, every
\* call adds an unseen key of the table to the seen set, and a lookup in
\* progress can always take its next step (so it returns after finitely many).
C10_AliasLookupTerminates ==
    /\ acalls <= Cardinality(DOMAIN raw) + 1
    /\ apc = "eval" =>
          /\ aseen \subseteq DOMAIN raw
          /\ acalls = Cardinality(aseen)
          /\ (aval.isCallable \/ Len(aval.toks) >= 1)
          /\ (ENABLED EvalAliasReturn \/ ENABLED EvalAliasRecurse)

\* A lookup through a cycle of all three aliases has returned.
C10_Witness ==
    /\ apc = "done"
    /\ acalls = Cardinality(AliasNames)
    /\ ~aresult.isCallable
    /\ Head(aresult.toks) = akey

\* The table of the example: l = `ls -CF`, ls = `ls --color=auto`.
C11_ExampleTable ==
    [k \in {"l", "ls"} |->
        IF k = "l" THEN TokenList(<<"ls", "-CF">>)
        ELSE TokenList(<<"ls", "--color=auto">>)]

\* One step of a lookup that is at a token list, as the claim describes it:
\* it returns the list followed by the accumulated arguments when the head
\* was already expanded (or is the key) or is no key of the table, and
\* otherwise goes on with the head's entry, the rest of the list put in
\* front of the accumulated arguments.
C11_Step ==
    (apc = "eval" /\ ~aval.isCallable) =>
        IF Head(aval.toks) \in aseen \/ Head(aval.toks) \notin DOMAIN raw
        THEN /\ apc' = "done"
             /\ aresult' = TokenList(aval.toks \o aacc)
        ELSE /\ apc' = "eval"
             /\ aval' = raw[Head(aval.toks)]
             /\ aseen' = aseen \cup {Head(aval.toks)}
             /\ aacc' = SubSeq(aval.toks, 2, Len(aval.toks)) \o aacc

\* C11: every step of an alias lookup expands only the left-most token and
\* keeps the trailing arguments in their left-to-right order; looking up l
\* in the example table gives [ls, --color=auto, -CF].
C11_LeftmostExpansion ==
    /\ [][C11_Step]_vars
    /\ []((raw = C11_ExampleTable /\ akey = "l" /\ apc = "done") =>
             aresult = TokenList(<<"ls", "--color=auto", "-CF">>))

\* The lookup of l in the example table has returned after expanding ls.
\* (Witness of C11.)
C11_WitnessExample ==
    /\ raw = C11_ExampleTable /\ akey = "l" /\ apc = "done"
    /\ acalls = 2 /\ aseen = {"l", "ls"}
    /\ aresult.toks = <<"ls", "--color=auto", "-CF">>

\* Whether every alias of the table is a token list.
C12_TokenListTable == \A k \in DOMAIN raw : ~raw[k].isCallable

\* C12: for a table of token-list aliases, expanding the list a lookup
\* returned once more, the way get_proc expands a command, gives the list
\* again.
C12_Idempotent ==
    (C12_TokenListTable /\ afirst # NoneValue /\ apc = "done") =>
        ExpandCmd(aresult, afirst.toks) = afirst.toks

\* The list returned for l, whose head is no alias, expanded to itself.
C12_WitnessFixpoint ==
    /\ C12_TokenListTable /\ apc = "done"
    /\ afirst = TokenList(<<"g", "-CF">>) /\ "g" \notin DOMAIN raw
    /\ ExpandCmd(aresult, afirst.toks) = afirst.toks

\* C13: the stage built from a callable alias enters the callable at the
\* bottom exactly once, with the arguments accumulated during the lookup
\* followed by the command-line arguments.
C13_CallableCalledOnce ==
    astage.ran =>
        /\ astage.calls = 1
        /\ astage.callArgs = aacc \o astage.args

\* A two-argument callable reached through `l = g -CF` was called once with
\* [-CF, x].
C13_WitnessSimple ==
    /\ astage.ran /\ astage.calls = 1 /\ astage.cls = "SimpleProcProxy"
    /\ aresult.partial /\ UnderlyingArity(aresult) = 2
    /\ astage.callArgs = <<"-CF", "x">>

\* C14: the active job, if there is one, is a foreground job.
C14_ActiveIsForeground == jactive.set => ~jactive.bg

\* C15: when wait_for_active_job has returned, no job is active any more.
C15_WaitClearsActive == (jlast = "wait" /\ jpc = "idle") => ~jactive.set

\* C16: when kill_all_jobs has returned, no child of a registered job is
\* running.
C16_KillLeavesNoChild ==
    jlast = "kill" => \A k \in DOMAIN jkids : jkids[k] # "running"

\* The normalisation of one interpreter word as C17 words it: /usr/bin/env
\* is dropped; otherwise a word beginning with /usr/bin, /usr/local/bin or
\* /bin becomes its basename, any other word ending in python or python.exe
\* becomes python; a word that is then the shell's name becomes the module
\* invocation.
C17_Stable(w) ==
    IF w.dir \in {"/usr/bin", "/usr/local/bin", "/bin", "/binx"}
      THEN Word("", w.base)
    ELSE IF w.base \in {"python", "python.exe"} THEN Word("", "python")
    ELSE w

C17_Normal(w) ==
    IF w = Word("/usr/bin", "env") THEN <<>>
    ELSE IF C17_Stable(w) = Word("", "xonsh")
      THEN <<Word("", "python"), Word("", "-m"), Word("", "xonsh.main")>>
    ELSE <<C17_Stable(w)>>

RECURSIVE C17_NormalAll(_)
C17_NormalAll(ws) ==
    IF ws = <<>> THEN <<>>
    ELSE C17_Normal(Head(ws)) \o C17_NormalAll(Tail(ws))

\* The call returned for an executable text script with a shebang line.
C17_Resolved ==
    /\ sres # <<>> /\ sfile # <<>>
    /\ sfile.exec /\ ~sfile.binary /\ sfile.shebang # <<>>

\* C17 as stated: on every platform the script resolves to the normalised
\* interpreter words, the script path and the arguments.
C17_NormalisedEverywhere ==
    C17_Resolved =>
        /\ sres.err = ""
        /\ sres.argv = C17_NormalAll(sfile.shebang) \o <<sfile.path>> \o sargs

\* C17 amended: the words are normalised on Windows only (and there only
\* when the extension is not in PATHEXT); elsewhere they are used as written.
C17_NormalisedOnWindows ==
    C17_Resolved =>
        /\ sres.err = ""
        /\ ~swin => sres.argv = sfile.shebang \o <<sfile.path>> \o sargs
        /\ (swin /\ ~sfile.pathext) =>
              sres.argv = C17_NormalAll(sfile.shebang) \o <<sfile.path>> \o sargs
        /\ (swin /\ sfile.pathext) => sres.argv = <<sfile.path>> \o sargs
        /\ sfile.shebang = <<Word("/usr/bin", "env"), Word("", "python3")>> =>
              sres.argv = (IF swin /\ sfile.pathext THEN <<>>
                           ELSE IF swin THEN <<Word("", "python3")>>
                           ELSE sfile.shebang) \o <<sfile.path>> \o sargs

\* `#!/usr/bin/env python3` in /tmp/x has been resolved off Windows.
C17_WitnessEnvPython ==
    /\ C17_Resolved /\ ~swin
    /\ sfile.shebang = <<Word("/usr/bin", "env"), Word("", "python3")>>
    /\ sres.argv = <<Word("/usr/bin", "env"), Word("", "python3"),
                      Word("/tmp", "x")>> \o sargs

\* C18: a captured foreground run whose terminal stage redirects stdout to a
\* file is
\* accepted, returns the empty string, and every byte the terminal stage
\* wrote is in the file.
C18_RedirectedCaptureIsEmpty ==
    /\ \A d \in CmdDescs, hasPrev \in BOOLEAN :
          (d.toks = <<"cmd", ">", "f">> /\ d.kind \in {"os", "proxy4", "simple"})
              => get_proc(d, hasPrev, TRUE, TRUE).err = ""
    /\ (captured /\ ~background /\ pc = "returned" /\ Terminal # 0
            /\ objs[Terminal].outKind = "file") =>
          /\ result = Str(<<>>)
          /\ \A i \in DOMAIN written : written[i] # 0 - Terminal

\* A captured run of an OS child with `> f` returned "" and the child's
\* byte is in the file.
C18_WitnessChildToFile ==
    /\ captured /\ ~background /\ pc = "returned" /\ Terminal # 0
    /\ objs[Terminal].outKind = "file" /\ objs[Terminal].kind = "os"
    /\ result = Str(<<>>)
    /\ \E i \in DOMAIN written : written[i] = Terminal

\* C19: once its worker has ended, a four-argument proxy whose callable
\* returned has a returncode that is not null (the value returned, or True),
\* and a two-argument proxy has returncode True or False, no exception having
\* left its thread.
C19_ProxyExitStatus ==
    \A o \in DOMAIN objs :
        objs[o].st = "done" =>
            /\ (objs[o].kind = "proxy4" /\ ~objs[o].exc) =>
                    objs[o].rc \in {PyBool(TRUE), PyBool(FALSE)}
            /\ objs[o].kind = "simple" =>
                    ~objs[o].exc /\ objs[o].rc \in {PyBool(TRUE), PyBool(FALSE)}

\* A four-argument callable returned False and a two-argument callable
\* failed inside wrapped_simple_command: both proxies ended False.
C19_WitnessBothFalse ==
    \E o, q \in DOMAIN objs :
        /\ objs[o].kind = "proxy4" /\ objs[o].st = "done" /\ ~objs[o].exc
        /\ objs[o].rc = PyBool(FALSE)
        /\ objs[q].kind = "simple" /\ objs[q].st = "done" /\ ~objs[q].exc
        /\ objs[q].rc = PyBool(FALSE)

\* C20: a proxy whose worker thread has ended has a returncode that is not
\* null, and it is False when the thread ended on an exception.
C20_PollNonNullAfterWorker ==
    \A o \in DOMAIN objs :
        (IsProxyKind(objs[o].kind) /\ objs[o].st = "done") =>
            /\ objs[o].rc # None
            /\ objs[o].exc => objs[o].rc = PyBool(FALSE)

\* The run has waited for a four-argument proxy whose callable raised.
C20_WitnessRaisedAndJoined ==
    \E o \in waited :
        objs[o].kind = "proxy4" /\ objs[o].st = "done" /\ objs[o].exc

\* The redirection loop of the stage under construction has ended without
\* an error.
Wired == wrun # <<>> /\ wrun.at \in {"refused", "built"}

\* C21: a stage with an explicit stdin redirection and a previous stage is
\* refused with the multiple-stdin error, and no other stage is; a stage
\* that is built reads the explicit binding if it has one, else the
\* previous stage's stdout, else the inherited stdin; so the terminal stage
\* of a longer pipeline reads the stage before it.
C21_StdinWiring ==
    Wired =>
        LET explicit == "stdin" \in DOMAIN wrun.streams
        IN  /\ (explicit /\ wstage.hasPrev)
                    => (wrun.at = "refused" /\ wrun.err = ErrStdin)
            /\ wrun.err = ErrStdin => (explicit /\ wstage.hasPrev)
            /\ wrun.at = "built" =>
                    wrun.stdin = IF explicit THEN "file"
                                 ELSE IF wstage.hasPrev THEN "prev"
                                 ELSE "inherit"
            /\ (wrun.at = "built" /\ wstage.uninew /\ wstage.hasPrev)
                    => wrun.stdin = "prev"

\* `cmd < f` after a pipe has been refused.
C21_WitnessRefused ==
    /\ Wired /\ wstage.hasPrev /\ wstage.toks = <<"cmd", "<", "f">>
    /\ wrun.at = "refused"
C23_PidsOfOsStages ==
    (pc \in {"waitproxy", "waitjob", "output", "reading", "return", "returned"}
     /\ Terminal # 0) =>
        IF IsProxyKind(objs[Terminal].kind) THEN activeJob = NoJob
        ELSE /\ activeJob.set
             /\ activeJob.obj = Terminal
             /\ activeJob.bg = background
             /\ activeJob.pids =
                    SelectSeq(procs, LAMBDA o : objs[o].kind = "os")

\* The job of a pipeline of two OS children has been registered.
C23_WitnessTwoChildren ==
    /\ pc = "waitjob" /\ Len(procs) = 2 /\ activeJob.set
    /\ \A k \in 1..2 : objs[procs[k]].kind = "os"

\* C24: no `and`/`or` composite owns a pipe, whatever stdout it was given:
\* the only pipes are those of the stages its sub-commands built and of the
\* simple stages.
C24_CompositeOwnsNoPipe == \A c \in Composites : c \notin DOMAIN pipes

\* A composite that was given stdout = PIPE has run both its sub-commands.
C24_WitnessCompositeGivenPipe ==
    \E c \in Composites :
        /\ objs[c].outKind = "pipe" /\ objs[c].st = "done"
        /\ SubDone(c, 1) /\ SubDone(c, 2)

\* C25: a foreground run blocked in wait_for_active_job on a child that is
\* still running is waiting for the terminal stage of its own pipeline: the
\* job it has just registered itself, in the foreground.  It is never held
\* by the record an earlier pipeline left in the registry.
C25_BlocksOnOwnJobOnly ==
    (jpc = "waiting" /\ jkids[jactive.obj] = "running")
        => (jlast = "add_job" /\ ~jactive.bg)

\* A foreground run is waiting for the child it has just registered.
C25_WitnessWaitsForOwn ==
    /\ jpc = "waiting" /\ jkids[jactive.obj] = "running"
    /\ jlast = "add_job" /\ ~jactive.bg

\* C26: a proc-proxy fed by the stage before it keeps its input until it has
\* read it to the end: as long as its worker has not seen EOF, the read end
\* of the previous stage's stdout is open, so that neither wrapping it nor
\* reading from it meets a closed stream.
C26_InputOpenUntilEof ==
    \A o \in DOMAIN objs :
        (IsProxyWorker(o) /\ objs[o].inp # 0
         /\ objs[o].rd \in {"init", "wrapped", "reading"})
            => pipes[objs[o].inp].ropen

\* A proxy has read the output of the stage before it to the end, and the
\* executor has closed that stage's stdout.
C26_WitnessReadToEof ==
    \E o \in DOMAIN objs :
        /\ IsProxyWorker(o) /\ objs[o].inp # 0 /\ objs[o].rd = "eof"
        /\ ~pipes[objs[o].inp].ropen
        /\ \E k \in DOMAIN written : written[k] = objs[o].inp

\* C27: once every worker has left its redirections, sys.stdout and
\* sys.stderr are the streams that were in place before the pipeline.
C27_AmbientRestored ==
    (rthreads # <<>> /\ \A w \in DOMAIN rthreads : rthreads[w].at = "done")
        => ambient = [stdout |-> 0, stderr |-> 0]

\* Three workers have finished and the streams are the original ones.
C27_WitnessRestored ==
    /\ DOMAIN rthreads = 1..3
    /\ \A w \in DOMAIN rthreads :
            rthreads[w].at = "done" /\ rthreads[w].oldOut # w
    /\ \E w \in DOMAIN rthreads : rthreads[w].oldOut # 0
    /\ ambient = [stdout |-> 0, stderr |-> 0]

\* C28: in a captured foreground run the executor never waits for the end
\* of the terminal stage while that stage is still running with its stdout
\* pipe full: what the stage has yet to write could then never be drained,
\* and the run would not return.
C28_NoWaitOnFullPipe ==
    (captured /\ ~background /\ Terminal # 0
     /\ pc \in {"waitproxy", "waitjob"}
     /\ objs[Terminal].st = "running" /\ objs[Terminal].outKind = "pipe")
        => Len(pipes[Terminal].buf) < PipeCap

\* A captured foreground run has returned what its terminal stage wrote.
C28_WitnessReturned ==
    /\ captured /\ ~background /\ Terminal # 0 /\ pc = "returned"
    /\ result = Str(<<Terminal>>)

\* C29: when the construction of a stage has failed with a redirection
\* error, none of the stage's redirection targets has been opened: no
\* stream of the stage is bound to a file that _open opened.
C29_FailureOpensNothing ==
    (wrun # <<>> /\ wrun.at \in {"raised", "refused"}
     /\ wrun.err \in {ErrStdin, ErrStdout, ErrStderr, ErrUnrec, ErrNoFile})
        => \A t \in DOMAIN wrun.streams : wrun.streams[t].kind # "file"

\* `cmd > f > g` has failed in its redirection loop.
C29_WitnessSecondRedirect ==
    /\ wrun # <<>> /\ wrun.at = "raised" /\ wrun.err = ErrStdout
    /\ wstage.toks = <<"cmd", ">", "f", ">", "g">>
====
